---- MODULE Spec2Model ----
(***************************************************************************)
(* Model of the dropper package manager (pattyjogal/mc-dropper):           *)
(*   src/src/parser.rs   BukkitHTMLPluginParser (version extraction,       *)
(*                       enumerate_versions, find_newest_version, fetch)   *)
(*   src/src/backend.rs  PackageBackend (parse_package_specifier,          *)
(*                       pkg_install)                                      *)
(*                                                                         *)
(* Text is a sequence of one-character strings.  A u32 is kept as its      *)
(* canonical decimal numeral (a sequence of digits without leading zeros), *)
(* which keeps the full 32-bit range exact.  Option<T> is a sequence of    *)
(* length 0 (None) or 1 (Some).  A result is a record whose kind is "Ok",  *)
(* "Err" or "Panic".                                                        *)
(***************************************************************************)
EXTENDS Integers, Sequences, FiniteSets, TLC

\* minecraft_version  the parser's field (BukkitHTMLPluginParser::new)
\* site               what dev.bukkit.org answers for the package's files page
\* plugins            the files written to DOWNLOAD_DIR
\* call               the operation invoked and its argument
\* ret                what the operation returned
\* pc                 "ready" before the call, "done" after it
VARIABLES minecraft_version, site, plugins, call, ret, pc

vars == <<minecraft_version, site, plugins, call, ret, pc>>

-----------------------------------------------------------------------------
(* Rust values *)

None == <<>>

Some(x) == <<x>>

IsSome(o) == Len(o) = 1

Unwrap(o) == o[1]

Ok(v) == [kind |-> "Ok", val |-> v]

Err(e) == [kind |-> "Err", val |-> e]

Panic == [kind |-> "Panic", val |-> "panic"]

-----------------------------------------------------------------------------
(* Characters *)

Digits == {"0", "1", "2", "3", "4", "5", "6", "7", "8", "9"}

Letters == {"a", "b", "x", "y", "P", "M", "C", "_"}

\* \d of the regex crate, restricted to ASCII
IsDigit(c) == c \in Digits

\* \w of the regex crate, restricted to ASCII
IsWord(c) == c \in Digits \cup Letters

VERSION_SPLIT_CHAR == "@"

-----------------------------------------------------------------------------
(* VERSION_CODE_REGEX = (\d+)\.(\*|\d+)?\.?(\*|\d+)?\.?(\*|\d+)?           *)
(* Leftmost-first matching.  Once (\d+)\. has matched nothing after it can *)
(* fail, so every optional piece greedily takes what is there.             *)

\* s[a .. b-1]
Slice(s, a, b) == SubSeq(s, a, b - 1)

\* end (exclusive) of the longest digit run that starts at p
RECURSIVE DigitRunEnd(_, _)
DigitRunEnd(s, p) ==
    IF p <= Len(s) /\ IsDigit(s[p]) THEN DigitRunEnd(s, p + 1) ELSE p

\* (\*|\d+)? at p: the end of the group, p itself when it does not take part
OptGroup(s, p) ==
    IF p <= Len(s) /\ s[p] = "*" THEN p + 1 ELSE DigitRunEnd(s, p)

\* \.? at p
OptDot(s, p) == IF p <= Len(s) /\ s[p] = "." THEN p + 1 ELSE p

\* capture group a..b-1 as an Option<text>
Group(s, a, b) == IF b > a THEN Some(Slice(s, a, b)) ELSE None

\* does the regex match starting exactly at p
MatchesAt(s, p) ==
    LET q1 == DigitRunEnd(s, p)
    IN  q1 > p /\ q1 <= Len(s) /\ s[q1] = "."

\* the captures of the match that starts at p (MatchesAt(s, p) holds)
CapturesAt(s, p) ==
    LET q1 == DigitRunEnd(s, p)
        p2 == q1 + 1
        q2 == OptGroup(s, p2)
        p3 == OptDot(s, q2)
        q3 == OptGroup(s, p3)
        p4 == OptDot(s, q3)
        q4 == OptGroup(s, p4)
    IN  [start |-> p, end |-> q4,
         g0 |-> Slice(s, p, q4),
         g1 |-> Group(s, p, q1),
         g2 |-> Group(s, p2, q2),
         g3 |-> Group(s, p3, q3),
         g4 |-> Group(s, p4, q4)]

\* Regex::is_match: an unanchored search
IsMatch(s) == \E p \in 1..Len(s) : MatchesAt(s, p)

\* Regex::captures_iter: successive non-overlapping leftmost matches; the
\* search for the next match starts where the last one ended
RECURSIVE CapturesFrom(_, _)
CapturesFrom(s, from) ==
    IF from > Len(s) THEN <<>>
    ELSE IF MatchesAt(s, from)
    THEN LET m == CapturesAt(s, from)
         IN  <<m>> \o CapturesFrom(s, m.end)
    ELSE CapturesFrom(s, from + 1)

CapturesIter(s) == CapturesFrom(s, 1)

-----------------------------------------------------------------------------
(* u32 parsing and formatting *)

DigitVal == [c \in Digits |->
    CASE c = "0" -> 0 [] c = "1" -> 1 [] c = "2" -> 2 [] c = "3" -> 3
      [] c = "4" -> 4 [] c = "5" -> 5 [] c = "6" -> 6 [] c = "7" -> 7
      [] c = "8" -> 8 [] c = "9" -> 9]

\* u32::MAX = 4294967295 as a numeral
U32_MAX == <<"4", "2", "9", "4", "9", "6", "7", "2", "9", "5">>

\* numeral without its leading zeros ("06" -> "6", "00" -> "0")
RECURSIVE StripZeros(_)
StripZeros(ds) ==
    IF Len(ds) > 1 /\ ds[1] = "0" THEN StripZeros(Tail(ds)) ELSE ds

\* a < b for canonical numerals
NumLess(a, b) ==
    \/ Len(a) < Len(b)
    \/ /\ Len(a) = Len(b)
       /\ \E k \in 1..Len(a) :
              /\ DigitVal[a[k]] < DigitVal[b[k]]
              /\ \A j \in 1..(k - 1) : a[j] = b[j]

\* str::parse::<u32>() on a capture group's text
ParseU32(text) ==
    IF text = <<>> \/ \E k \in 1..Len(text) : ~IsDigit(text[k])
    THEN Err("ParseIntError")
    ELSE LET n == StripZeros(text)
         IN  IF NumLess(U32_MAX, n) THEN Err("ParseIntError") ELSE Ok(n)

\* Option<Match> -> Result<Option<u32>>
ParseOptU32(g) ==
    IF IsSome(g)
    THEN LET r == ParseU32(Unwrap(g))
         IN  IF r.kind = "Ok" THEN Ok(Some(r.val)) ELSE r
    ELSE Ok(None)

Dot == <<".">>

\* stringify_version_tuple whose second match looks at tup.2 again
stringify_version_tuple_PatchTwice(tup) ==
    LET v1 == tup[1] \o Dot \o tup[2]
        v2 == IF IsSome(tup[3]) THEN v1 \o Dot \o Unwrap(tup[3]) ELSE v1
        v3 == IF IsSome(tup[3]) THEN v2 \o Dot \o Unwrap(tup[3]) ELSE v2
    IN  v3

\* stringify_version_tuple(tup, None); tup = <<major, minor, patch, build>>
stringify_version_tuple(tup) ==
    LET v1 == tup[1] \o Dot \o tup[2]
        v2 == IF IsSome(tup[3]) THEN v1 \o Dot \o Unwrap(tup[3]) ELSE v1
        v3 == IF IsSome(tup[4]) THEN v2 \o Dot \o Unwrap(tup[4]) ELSE v2
    IN  v3

-----------------------------------------------------------------------------
(* extract_version_numbers *)

\* the tuple built from the four parsed fields; the first field that fails
\* to parse returns its error (the ? operator)
TupleOfFields(a, b, c, d) ==
    IF a.kind # "Ok" THEN a
    ELSE IF b.kind # "Ok" THEN b
    ELSE IF c.kind # "Ok" THEN c
    ELSE IF d.kind # "Ok" THEN d
    ELSE Ok(<<a.val, b.val, c.val, d.val>>)

\* the tuple pushed for one regex match, or the error that returns early
MatchTuple(m) ==
    IF IsSome(m.g1) /\ IsSome(m.g2)
    THEN TupleOfFields(ParseU32(Unwrap(m.g1)), ParseU32(Unwrap(m.g2)),
                       ParseOptU32(m.g3), ParseOptU32(m.g4))
    ELSE Err("BadVersioningFormat")

\* push onto a vector that is still being built: the first error wins
PushFront(head, rest) ==
    IF head.kind # "Ok" THEN head
    ELSE IF rest.kind # "Ok" THEN rest
    ELSE Ok(<<head.val>> \o rest.val)

\* entry_versions of one label: its candidate tuples in match order
RECURSIVE TuplesOfMatches(_, _)
TuplesOfMatches(ms, k) ==
    IF k > Len(ms) THEN Ok(<<>>)
    ELSE PushFront(MatchTuple(ms[k]), TuplesOfMatches(ms, k + 1))

EntryVersions(version) == TuplesOfMatches(CapturesIter(version), 1)

\* version_tuples: one candidate list per label, or the first error
RECURSIVE VersionTuplesFrom(_, _)
VersionTuplesFrom(version_list, k) ==
    IF k > Len(version_list) THEN Ok(<<>>)
    ELSE PushFront(EntryVersions(version_list[k]),
                   VersionTuplesFrom(version_list, k + 1))

VersionTuples(version_list) == VersionTuplesFrom(version_list, 1)

Max(a, b) == IF a > b THEN a ELSE b

RECURSIVE MaxLenFrom(_, _)
MaxLenFrom(version_tuples, k) ==
    IF k > Len(version_tuples) THEN 0
    ELSE Max(Len(version_tuples[k]), MaxLenFrom(version_tuples, k + 1))

\* max_len: the fold over the candidate lists
MaxLen(version_tuples) == MaxLenFrom(version_tuples, 1)

\* the inner loop for column i over labels j .. n, prev being the last
\* value seen in the column (columns and labels count from 1 here)
RECURSIVE StreakFrom(_, _, _, _)
StreakFrom(version_tuples, i, j, prev) ==
    IF j > Len(version_tuples) THEN 0
    ELSE IF i > Len(version_tuples[j])
    THEN 1 + StreakFrom(version_tuples, i, j + 1, prev)
    ELSE (IF version_tuples[j][i] = prev THEN 1 ELSE 0)
         + StreakFrom(version_tuples, i, j + 1, version_tuples[j][i])

\* similar_streaks[i]; the first label must have column i
SimilarStreak(version_tuples, i) ==
    StreakFrom(version_tuples, i, 2, version_tuples[1][i])

SimilarStreaks(version_tuples) ==
    [i \in 1..MaxLen(version_tuples) |-> SimilarStreak(version_tuples, i)]

\* min_by that lets a later element replace an equal best one (what
\* max_by does for maxima): the last of several minima is returned
RECURSIVE MinByFrom_LastWins(_, _, _)
MinByFrom_LastWins(xs, k, best) ==
    IF k > Len(xs) THEN best
    ELSE MinByFrom_LastWins(xs, k + 1, IF xs[k] <= xs[best] THEN k ELSE best)

\* Iterator::min_by: a later element replaces the best only when it is
\* strictly smaller, so the first of several minima is returned
RECURSIVE MinByFrom(_, _, _)
MinByFrom(xs, k, best) ==
    IF k > Len(xs) THEN best
    ELSE MinByFrom(xs, k + 1, IF xs[k] < xs[best] THEN k ELSE best)

MinBy(xs) == MinByFrom(xs, 2, 1)

\* a final map that stops one label short
StringifyColumn_DropsLast(version_tuples, col) ==
    IF \E k \in 1..Len(version_tuples) : Len(version_tuples[k]) < col
    THEN Panic
    ELSE Ok([k \in 1..(Len(version_tuples) - 1) |->
                stringify_version_tuple(version_tuples[k][col])])

\* the final map: x[col] of every label, stringified
StringifyColumn(version_tuples, col) ==
    IF \E k \in 1..Len(version_tuples) : Len(version_tuples[k]) < col
    THEN Panic
    ELSE Ok([k \in 1..Len(version_tuples) |->
                stringify_version_tuple(version_tuples[k][col])])

\* extract_version_numbers once version_tuples is built
SelectVersions(version_tuples) ==
    IF \A k \in 1..Len(version_tuples) : Len(version_tuples[k]) = 1
    THEN StringifyColumn(version_tuples, 1)
    \* version_iter.next().unwrap()[i] for every i < max_len
    ELSE IF Len(version_tuples[1]) < MaxLen(version_tuples) THEN Panic
    \* min_by over no columns, then unwrap
    ELSE IF MaxLen(version_tuples) = 0 THEN Panic
    ELSE StringifyColumn(version_tuples,
                         MinBy(SimilarStreaks(version_tuples)))

\* r? followed by SelectVersions
SelectVersionsOf(r) == IF r.kind # "Ok" THEN r ELSE SelectVersions(r.val)

extract_version_numbers(version_list) ==
    SelectVersionsOf(VersionTuples(version_list))

-----------------------------------------------------------------------------
(* parser.rs: enumerate_versions, find_newest_version, fetch *)

\* the versions bukkit_mc_version_code knows
KnownMinecraftVersions ==
    {"1.12", "1.11", "1.10", "1.9", "1.8.1", "1.8", "CB 1.7.9-R0.2",
     "CB 1.7.9-R0.1", "CB 1.7.2-R0.3", "1.7.4"}

bukkit_mc_version_code(mc) ==
    IF mc \in KnownMinecraftVersions
    THEN Ok(mc)
    ELSE Err("ServerVersionNotFound")

\* the end of enumerate_versions: extract_version_numbers(names)? and the
\* pair of parallel vectors
VersionsAndLinks(plugin_versions, plugin_version_links) ==
    IF plugin_versions.kind # "Ok" THEN plugin_versions
    ELSE Ok(Some(<<plugin_versions.val, plugin_version_links>>))

\* s.status: "unreachable" (reqwest::get fails), "not_found" (404),
\* "failed" (another non-success status) or "success"; s.listing: the page
\* has a .listing element; s.names / s.links: the text and the download
\* link of each file anchor, in page order
enumerate_versions(mc, s) ==
    IF mc \notin KnownMinecraftVersions THEN bukkit_mc_version_code(mc)
    ELSE IF s.status = "unreachable" THEN Err("reqwest")
    ELSE IF s.status = "not_found" THEN Ok(None)
    ELSE IF s.status # "success" THEN Err("RequestFailed")
    \* extract_list_from_table: select(..).next().unwrap()
    ELSE IF ~s.listing THEN Panic
    ELSE VersionsAndLinks(extract_version_numbers(s.names), s.links)

\* find_newest_version taking the last entry of the lists, not the first
NewestOf_Last(e) ==
    IF e.kind # "Ok" THEN e
    ELSE IF ~IsSome(e.val) THEN Ok(None)
    ELSE IF Len(Unwrap(e.val)[1]) = 0 \/ Len(Unwrap(e.val)[2]) = 0
    THEN Panic
    ELSE Ok(Some(<<Unwrap(e.val)[1][Len(Unwrap(e.val)[1])],
                   Unwrap(e.val)[2][Len(Unwrap(e.val)[2])]>>))

\* find_newest_version once enumerate_versions has answered e
NewestOf(e) ==
    IF e.kind # "Ok" THEN e
    ELSE IF ~IsSome(e.val) THEN Ok(None)
    \* versions.first().cloned().unwrap(), links.first().cloned().unwrap()
    ELSE IF Len(Unwrap(e.val)[1]) = 0 \/ Len(Unwrap(e.val)[2]) = 0
    THEN Panic
    ELSE Ok(Some(<<Unwrap(e.val)[1][1], Unwrap(e.val)[2][1]>>))

find_newest_version(mc, s) == NewestOf(enumerate_versions(mc, s))

Range(f) == {f[k] : k \in DOMAIN f}

\* the last index of names that holds key
LastIndexOf(names, key) ==
    CHOOSE i \in 1..Len(names) :
        /\ names[i] = key
        /\ \A j \in (i + 1)..Len(names) : names[j] # key

\* names_to_links after the insert loop: a later insert of the same
\* name replaces the link of the earlier one
NamesToLinks(names, links) ==
    [key \in Range(names) |-> links[LastIndexOf(names, key)]]

\* the inner loop of fetch accepting a name that merely starts with the
\* requested version
NameHasVersion_Prefix(name, version_code) ==
    /\ Len(name) >= Len(version_code)
    /\ SubSeq(name, 1, Len(version_code)) = version_code

\* the inner loop of fetch: some match of the regex in name is version_code
NameHasVersion(name, version_code) ==
    \E k \in 1..Len(CapturesIter(name)) :
        CapturesIter(name)[k].g0 = version_code

\* the search loop of fetch answering an error when no name matches
SearchLinks_NotFoundIsErr(names_to_links, hits) ==
    IF hits = {} THEN {Err("NotFound")}
    ELSE {Ok(Some(names_to_links[name])) : name \in hits}

\* The search loop of fetch.  A HashMap iterates in an order that differs
\* from run to run and the loop returns at the first name that matches, so
\* every matching name can be the one whose link is returned.
SearchLinks(names_to_links, hits) ==
    IF hits = {} THEN {Ok(None)}
    ELSE {Ok(Some(names_to_links[name])) : name \in hits}

\* fetch once enumerate_versions has answered e
FetchOf(e, version_code) ==
    IF e.kind # "Ok" THEN {e}
    ELSE IF ~IsSome(e.val) THEN {Ok(None)}
    ELSE SearchLinks(NamesToLinks(Unwrap(e.val)[1], Unwrap(e.val)[2]),
                     {name \in Range(Unwrap(e.val)[1]) :
                          NameHasVersion(name, version_code)})

\* the results fetch can produce
fetch(mc, s, version_code) == FetchOf(enumerate_versions(mc, s), version_code)

-----------------------------------------------------------------------------
(* backend.rs: parse_package_specifier, pkg_install *)

Contains(s, c) == \E k \in 1..Len(s) : s[k] = c

\* index of the first c in s, Len(s) + 1 when there is none
RECURSIVE IndexOf(_, _, _)
IndexOf(s, c, k) ==
    IF k > Len(s) \/ s[k] = c THEN k ELSE IndexOf(s, c, k + 1)

\* str::split(c) collected into a Vec, from position k on
RECURSIVE SplitFrom(_, _, _)
SplitFrom(s, c, k) ==
    IF IndexOf(s, c, k) > Len(s) THEN <<Slice(s, k, Len(s) + 1)>>
    ELSE <<Slice(s, k, IndexOf(s, c, k))>>
         \o SplitFrom(s, c, IndexOf(s, c, k) + 1)

Split(s, c) == SplitFrom(s, c, 1)

\* name_re without its anchors: \w+ found anywhere in s
NameReIsMatch_Unanchored(s) == \E k \in 1..Len(s) : IsWord(s[k])

\* name_re = ^\w+$
NameReIsMatch(s) == Len(s) >= 1 /\ \A k \in 1..Len(s) : IsWord(s[k])

\* the arm for exactly two components
ParseComponents(components) ==
    IF ~NameReIsMatch(components[1]) THEN Err("PkgSpecInvalid")
    ELSE IF ~IsMatch(components[2]) THEN Err("PkgSpecInvalid")
    ELSE Ok(<<components[1], Some(components[2])>>)

\* the match on components.len()
MatchComponents(components) ==
    IF Len(components) = 2 THEN ParseComponents(components)
    ELSE Err("PkgSpecInvalid")

parse_package_specifier(pkg_specifier) ==
    IF Contains(pkg_specifier, VERSION_SPLIT_CHAR)
    THEN MatchComponents(Split(pkg_specifier, VERSION_SPLIT_CHAR))
    ELSE IF NameReIsMatch(pkg_specifier)
         THEN Ok(<<pkg_specifier, None>>)
         ELSE Err("PkgSpecInvalid")

IoOutcomes == {"ok", "get_failed", "create_failed"}

\* the tail of pkg_install once a link is resolved: download pkg_url into
\* DOWNLOAD_DIR/name@version.jar; io is how the network and the disk behave
Download(name, version, pkg_url, io) ==
    IF io = "get_failed" THEN [ret |-> Err("reqwest"), files |-> {}]
    ELSE IF io = "create_failed" THEN [ret |-> Err("io"), files |-> {}]
    ELSE [ret |-> Ok(Some(<<name, version>>)),
          files |-> {[name |-> name, version |-> version, url |-> pkg_url]}]

\* arm "a version was specified", r being what fetch returned
InstallVersion(name, version, r) ==
    IF r.kind # "Ok" \/ ~IsSome(r.val) THEN {[ret |-> r, files |-> {}]}
    ELSE {Download(name, version, Unwrap(r.val), io) : io \in IoOutcomes}

\* arm "no version was specified", r being what find_newest_version returned
InstallNewest(name, r) ==
    IF r.kind # "Ok" \/ ~IsSome(r.val) THEN {[ret |-> r, files |-> {}]}
    ELSE {Download(name, Unwrap(r.val)[1], Unwrap(r.val)[2], io) :
              io \in IoOutcomes}

\* pkg_install once the specifier is parsed
InstallParsed(mc, s, parsed) ==
    IF parsed.kind # "Ok" THEN {[ret |-> parsed, files |-> {}]}
    ELSE IF IsSome(parsed.val[2])
    THEN UNION {InstallVersion(parsed.val[1], Unwrap(parsed.val[2]), r) :
                    r \in fetch(mc, s, Unwrap(parsed.val[2]))}
    ELSE InstallNewest(parsed.val[1], find_newest_version(mc, s))

\* The outcomes pkg_install can produce: what it returns and the files it
\* writes.
pkg_install(mc, s, pkg_specifier) ==
    InstallParsed(mc, s, parse_package_specifier(pkg_specifier))

-----------------------------------------------------------------------------
(* Inputs *)

\* most groups of a generated version half
MaxGroups == 5

\* most labels of a generated version list
MaxLabels == 3

\* most files of a generated files page
MaxFiles == 3

\* all sequences over S of length 0 .. n
SeqsUpTo(S, n) == UNION {[1..k -> S] : k \in 0..n}

RECURSIVE Join(_, _)
Join(words, sep) ==
    IF Len(words) = 0 THEN <<>>
    ELSE IF Len(words) = 1 THEN words[1]
    ELSE words[1] \o sep \o Join(Tail(words), sep)

At == <<VERSION_SPLIT_CHAR>>

\* package names: a, a_1 (valid), the empty name and "1 2" (invalid)
ValidNames == {<<"a">>, <<"a", "_", "1">>}

Names == ValidNames \cup {<<>>, <<"1", " ", "2">>}

\* the text of one dot-separated group of a version half
GroupTexts == {<<>>, <<"1">>, <<"*">>}

\* version halves: up to MaxGroups groups joined by dots, with or without
\* text before and after
Halves ==
    {pre \o Join(gs, Dot) \o post :
        pre \in {<<>>, <<"x">>}, post \in {<<>>, <<"y">>},
        gs \in SeqsUpTo(GroupTexts, MaxGroups)}

\* numerals used as version fields: 0, 6, 11 and u32::MAX
Values == {<<"0">>, <<"6">>, <<"1", "1">>, U32_MAX}

OptValues == {None} \cup {Some(v) : v \in Values}

\* (u32, u32, Option<u32>, Option<u32>)
Tuples == {<<a, b, c, d>> : a \in Values, b \in Values,
                            c \in OptValues, d \in OptValues}

\* format!("{}@{}", name, stringify(t))
FormatSpecifier(name, t) == name \o At \o stringify_version_tuple(t)

ExampleSpecifiers ==
    {<<"a", "@", "9", "9", "9", "9", "9", "9", "9", "9", "9", "9", "9", ".", "1">>,
     <<"a", "@", "4", "2", "9", "4", "9", "6", "7", "2", "9", "6", ".", "1">>,
     <<"a", "@", "0", "6", ".", "1", ".", "9">>,
     <<"a", "@", "6", ".", "1", ".", "9">>,
     <<"a", "@", "6", ".", "1", ".", "*">>,
     <<"a", "@", "6", ".", "*">>,
     <<"a", "@", "*">>,
     <<"a", "@", "6", ".">>,
     <<"a", "@", "x", "1", ".", "2", "y">>,
     <<"a", "@", "1", ".", "2", ".", "3", ".", "4", ".", "5">>,
     <<"a", "@", "@", "1", ".", "2">>,
     <<"@", "1", ".", "2">>,
     <<"1", " ", "2", "@", "1", ".", "2">>,
     <<"a", "@", "1", ".", "2", ".", ".", "3">>}

Specifiers ==
    Names
    \cup {name \o At \o half : name \in Names, half \in Halves}
    \cup {name \o At \o h1 \o At \o h2 :
             name \in ValidNames, h1 \in {<<>>, <<"1", ".", "1">>},
             h2 \in {<<>>, <<"1", ".", "1">>}}
    \cup {FormatSpecifier(name, t) : name \in ValidNames, t \in Tuples}
    \cup ExampleSpecifiers

\* release labels: no version, one, two or three versions, a version the
\* regex matches without a minor number, with a wildcard, with a skipped
\* field
Labels ==
    {<<"x">>,
     <<"6", ".", "1", ".", "9">>,
     <<"1", ".", "1", "2">>,
     <<"6", ".", "1", ".", "9", " ", "1", ".", "1", "2">>,
     <<"1", ".", "1", "2", " ", "6", ".", "1", ".", "9">>,
     <<"6", ".", "1", ".", "1", "1", " ", "1", ".", "1", "2">>,
     <<"6", ".", "1", ".", "9", " ", "6", ".", "1", ".", "9">>,
     <<"1", ".", "1", "2", " ", "1", ".", "1", "2">>,
     <<"1", ".", "1", "2", " ", "6", ".", "1", ".", "9", " ", "6", ".", "1", ".", "1", "1">>,
     <<"1", ".">>,
     <<"1", ".", "*">>,
     <<"1", ".", "2", ".", ".", "3">>}

ExampleVersionLists ==
    {<<<<"P", "l", "u", "g", "i", "n", " ", "6", ".", "1", ".", "9", " ", "(", "M", "C", " ", "1", ".", "1", "2", ")">>,
       <<"P", "l", "u", "g", "i", "n", " ", "6", ".", "1", ".", "1", "1", " ", "(", "M", "C", " ", "1", ".", "1", "2", ")">>,
       <<"P", "l", "u", "g", "i", "n", " ", "6", ".", "2", ".", "0", " ", "(", "M", "C", " ", "1", ".", "1", "2", ")">>>>,
     <<<<"1", ".", "0", ".", "0">>,
       <<"1", ".", "1", ".", "0">>,
       <<"2", ".", "0", ".", "0">>>>,
     <<<<"W", "o", "r", "l", "d", "E", "d", "i", "t", " ", "6", ".", "1", ".", "9", " ", "f", "o", "r", " ", "M", "C", " ", "1", ".", "1", "2">>,
       <<"4", "2", "9", "4", "9", "6", "7", "2", "9", "6", ".", "0">>>>}

VersionLists == SeqsUpTo(Labels, MaxLabels) \cup ExampleVersionLists

\* the labels of the files pages
PageLabels ==
    {<<"6", ".", "1", ".", "9">>,
     <<"6", ".", "1", ".", "1", "1">>,
     <<"6", ".", "2", ".", "0">>,
     <<"6", ".", "1">>}

\* link k stands for the download link of the k-th file of the page
Page(names) ==
    [status |-> "success", listing |-> TRUE, names |-> names,
     links |-> [k \in 1..Len(names) |-> k]]

NoPage(status, listing) ==
    [status |-> status, listing |-> listing, names |-> <<>>, links |-> <<>>]

ExamplePages ==
    {Page(<<<<"x">>, <<"6", ".", "1", ".", "9">>>>),
     Page(<<<<"6", ".", "1", ".", "9">>, <<"1", ".", "2", ".", ".", "3">>>>),
     Page(<<<<"6", ".", "1", ".", "9", " ", "1", ".", "1", "2">>, <<"6", ".", "1", ".", "1", "1", " ", "1", ".", "1", "2">>, <<"6", ".", "2", ".", "0", " ", "1", ".", "1", "2">>>>),
     Page(<<<<"6", ".", "1", ".", "9">>, <<"1", ".">>>>)}

Sites ==
    {Page(names) : names \in SeqsUpTo(PageLabels, MaxFiles)}
    \cup ExamplePages
    \cup {NoPage("unreachable", FALSE), NoPage("not_found", FALSE),
          NoPage("failed", FALSE), NoPage("success", FALSE)}

\* version codes asked of fetch
VersionCodes ==
    {<<"6", ".", "1", ".", "9">>,
     <<"6", ".", "1", ".", "1", "1">>,
     <<"6", ".", "2", ".", "0">>,
     <<"6", ".", "1">>,
     <<"9", ".", "9", ".", "9">>,
     <<"0", "6", ".", "1", ".", "9">>,
     <<"1", ".", "2", ".", "3">>,
     <<"6", ".", "1", ".", "*">>,
     <<"6", ".", "*">>,
     <<"*">>}

\* specifiers given to pkg_install
InstallSpecifiers ==
    {<<"a">>, <<"1", " ", "2">>, <<"a">> \o At \o At \o <<"6", ".", "1">>}
    \cup {<<"a">> \o At \o v : v \in VersionCodes}

Call(op, arg) == [op |-> op, arg |-> arg]

NoRet == [kind |-> "None", val |-> "none"]

-----------------------------------------------------------------------------
(* Operations *)

\* the parser main builds: BukkitHTMLPluginParser::new(.., "1.11")
MainMinecraftVersion == "1.11"

\* a server version bukkit_mc_version_code has no code for
UnknownMinecraftVersion == "1.6"

Ready(op) == pc = "ready" /\ call.op = op

Done(op) == pc = "done" /\ call.op = op

Return(r) == ret' = r /\ pc' = "done"

ParsePackageSpecifier ==
    /\ Ready("parse_package_specifier")
    /\ Return(parse_package_specifier(call.arg))
    /\ UNCHANGED <<minecraft_version, site, plugins, call>>

ExtractVersionNumbers ==
    /\ Ready("extract_version_numbers")
    /\ Return(extract_version_numbers(call.arg))
    /\ UNCHANGED <<minecraft_version, site, plugins, call>>

EnumerateVersions ==
    /\ Ready("enumerate_versions")
    /\ Return(enumerate_versions(minecraft_version, site))
    /\ UNCHANGED <<minecraft_version, site, plugins, call>>

FindNewestVersion ==
    /\ Ready("find_newest_version")
    /\ Return(find_newest_version(minecraft_version, site))
    /\ UNCHANGED <<minecraft_version, site, plugins, call>>

Fetch ==
    /\ Ready("fetch")
    /\ \E r \in fetch(minecraft_version, site, call.arg) : Return(r)
    /\ UNCHANGED <<minecraft_version, site, plugins, call>>

PkgInstall ==
    /\ Ready("pkg_install")
    /\ \E o \in pkg_install(minecraft_version, site, call.arg) :
           /\ Return(o.ret)
           /\ plugins' = plugins \cup o.files
    /\ UNCHANGED <<minecraft_version, site, call>>

\* The backend and the parser over the files pages
Init ==
    /\ \/ minecraft_version = MainMinecraftVersion /\ site \in Sites
       \/ /\ minecraft_version = UnknownMinecraftVersion
          /\ site = Page(<<>>)
    /\ plugins = {}
    /\ \/ call = Call("enumerate_versions", <<"a">>)
       \/ call = Call("find_newest_version", <<"a">>)
       \/ \E v \in VersionCodes : call = Call("fetch", v)
       \/ \E s \in InstallSpecifiers : call = Call("pkg_install", s)
       \/ \E s \in InstallSpecifiers :
              call = Call("parse_package_specifier", s)
       \/ call = Call("extract_version_numbers", site.names)
    /\ ret = NoRet
    /\ pc = "ready"

Next ==
    \/ ParsePackageSpecifier
    \/ ExtractVersionNumbers
    \/ EnumerateVersions
    \/ FindNewestVersion
    \/ Fetch
    \/ PkgInstall

Spec == Init /\ [][Next]_vars

\* parse_package_specifier over the generated specifiers
InitParse ==
    /\ minecraft_version = MainMinecraftVersion
    /\ site = Page(<<>>)
    /\ plugins = {}
    /\ \E s \in Specifiers : call = Call("parse_package_specifier", s)
    /\ ret = NoRet
    /\ pc = "ready"

NextParse == ParsePackageSpecifier

SpecParse == InitParse /\ [][NextParse]_vars

\* extract_version_numbers over the generated version lists
InitExtract ==
    /\ minecraft_version = MainMinecraftVersion
    /\ site = Page(<<>>)
    /\ plugins = {}
    /\ \E l \in VersionLists : call = Call("extract_version_numbers", l)
    /\ ret = NoRet
    /\ pc = "ready"

NextExtract == ExtractVersionNumbers

SpecExtract == InitExtract /\ [][NextExtract]_vars

-----------------------------------------------------------------------------
(* Properties *)

Star == <<"*">>

\* a non-empty run of digits
IsNumeral(t) == Len(t) >= 1 /\ \A k \in 1..Len(t) : IsDigit(t[k])

\* the version grammar of the specifier: *, d.*, d.d.* or two to four
\* dot-separated numerals, and nothing else
IsVersionExpression(v) ==
    LET parts == Split(v, ".")
    IN  \/ v = Star
        \/ Len(parts) = 2 /\ IsNumeral(parts[1]) /\ parts[2] = Star
        \/ /\ Len(parts) = 3
           /\ IsNumeral(parts[1]) /\ IsNumeral(parts[2]) /\ parts[3] = Star
        \/ /\ Len(parts) \in 2..4
           /\ \A k \in 1..Len(parts) : IsNumeral(parts[k])

\* the smallest element of a non-empty set of indices
Least(I) == CHOOSE i \in I : \A j \in I : i <= j

\* the versions and links fetch and find_newest_version work on
Enumerated == enumerate_versions(minecraft_version, site)

HasReleases == Enumerated.kind = "Ok" /\ IsSome(Enumerated.val)

Versions == Unwrap(Enumerated.val)[1]

Links == Unwrap(Enumerated.val)[2]

\* the candidate tuples of every label of the list being extracted
Candidates == VersionTuples(call.arg)

\* the ambiguous case: every label parsed and some label does not have
\* exactly one candidate
Ambiguous ==
    /\ Candidates.kind = "Ok"
    /\ \E k \in 1..Len(Candidates.val) : Len(Candidates.val[k]) # 1

\* C1: exact lookup is first-match: when the requested version occurs at
\* more than one index of the versions list, fetch returns the link at the
\* smallest such index.
C1_ExactIsFirstMatch ==
    (Done("fetch") /\ HasReleases) =>
        LET I == {i \in 1..Len(Versions) : Versions[i] = call.arg}
        IN  Cardinality(I) > 1 => ret = Ok(Some(Links[Least(I)]))

\* C2: every specifier name@v whose version half v is not entirely a
\* version expression is rejected with the invalid-specifier error.
C2_MalformedVersionRejected ==
    (/\ Done("parse_package_specifier")
     /\ Contains(call.arg, VERSION_SPLIT_CHAR)
     /\ LET at == IndexOf(call.arg, VERSION_SPLIT_CHAR, 1)
        IN  ~IsVersionExpression(SubSeq(call.arg, at + 1, Len(call.arg))))
    => ret = Err("PkgSpecInvalid")

\* C3: when some label of the list has no version-like match at all,
\* extract_version_numbers returns an error; it neither returns Ok nor
\* panics.
C3_UnparseableLabelIsError ==
    (/\ Done("extract_version_numbers")
     /\ \E k \in 1..Len(call.arg) : CapturesIter(call.arg[k]) = <<>>)
    => ret.kind = "Err"

\* C4: in the ambiguous case no candidate list is indexed at a column the
\* label lacks: with every label holding at least one candidate, the
\* operation returns a value (Ok or an error) and never goes out of range.
C4_NoColumnOutOfRange ==
    (/\ Done("extract_version_numbers")
     /\ Ambiguous
     /\ \A k \in 1..Len(Candidates.val) : Len(Candidates.val[k]) >= 1)
    => ret.kind # "Panic"

\* C5: find_newest_version on a files page that lists no file returns the
\* absent result Ok(None).
C5_NewestOfEmptyIsNone ==
    (/\ Done("find_newest_version")
     /\ minecraft_version \in KnownMinecraftVersions
     /\ site = Page(<<>>))
    => ret = Ok(None)

\* the tuple a canonical version string stands for
TupleOfVersion(v) == EntryVersions(v).val[1]

\* patch a is lower than patch b, an absent patch being the lowest
PatchLess(a, b) ==
    IF IsSome(b) THEN (~IsSome(a) \/ NumLess(Unwrap(a), Unwrap(b)))
    ELSE FALSE

\* C6: a request major.minor.* resolves to the entry with that major and
\* minor whose patch is greatest (an absent patch is the lowest, ties go
\* to the earliest position), and to None only when no entry has that
\* major.minor.
C6_PatchWildcardPicksGreatestPatch ==
    (/\ Done("fetch")
     /\ HasReleases
     /\ LET parts == Split(call.arg, ".")
        IN  /\ Len(parts) = 3
            /\ IsNumeral(parts[1]) /\ IsNumeral(parts[2]) /\ parts[3] = Star)
    => LET parts == Split(call.arg, ".")
           I == {i \in 1..Len(Versions) :
                    /\ TupleOfVersion(Versions[i])[1] = StripZeros(parts[1])
                    /\ TupleOfVersion(Versions[i])[2] = StripZeros(parts[2])}
           patch(i) == TupleOfVersion(Versions[i])[3]
           best == Least({i \in I : \A j \in I : ~PatchLess(patch(i), patch(j))})
       IN  ret = IF I = {} THEN Ok(None) ELSE Ok(Some(Links[best]))

\* C7: Name@* is accepted and means Newest: installing it has the outcome
\* of installing the bare Name (the release at the first position).
C7_StarMeansNewest ==
    (/\ Done("pkg_install")
     /\ HasReleases
     /\ Len(Versions) >= 1
     /\ \E name \in ValidNames : call.arg = name \o At \o Star)
    => \E name \in ValidNames :
           /\ call.arg = name \o At \o Star
           /\ [ret |-> ret, files |-> plugins]
                  \in pkg_install(minecraft_version, site, name)

\* the spec's example: three releases that carry the same server version
PluginLabels ==
    <<<<"P", "l", "u", "g", "i", "n", " ", "6", ".", "1", ".", "9", " ", "(", "M", "C", " ", "1", ".", "1", "2", ")">>,
      <<"P", "l", "u", "g", "i", "n", " ", "6", ".", "1", ".", "1", "1", " ", "(", "M", "C", " ", "1", ".", "1", "2", ")">>,
      <<"P", "l", "u", "g", "i", "n", " ", "6", ".", "2", ".", "0", " ", "(", "M", "C", " ", "1", ".", "1", "2", ")">>>>

PluginVersions ==
    <<<<"6", ".", "1", ".", "9">>, <<"6", ".", "1", ".", "1", "1">>, <<"6", ".", "2", ".", "0">>>>

\* column c has the least score and is the first column with that score
IsFirstMinimum(scores, c) ==
    /\ \A j \in DOMAIN scores : scores[c] <= scores[j]
    /\ \A j \in 1..(c - 1) : scores[j] > scores[c]

C9_OutputFollowsInput ==
    (Done("extract_version_numbers") /\ Candidates.kind = "Ok") =>
        LET vt == Candidates.val
        IN  /\ ret.kind = "Ok" =>
                   /\ Len(ret.val) = Len(call.arg)
                   /\ \A k \in 1..Len(vt) :
                          \E c \in 1..Len(vt[k]) :
                              ret.val[k] = stringify_version_tuple(vt[k][c])
            /\ (\A k \in 1..Len(vt) : Len(vt[k]) = 1) =>
                   /\ ret.kind = "Ok"
                   /\ Len(ret.val) = Len(call.arg)
                   /\ \A k \in 1..Len(vt) :
                          ret.val[k] = stringify_version_tuple(vt[k][1])

\* C9 witness: three labels with one candidate each, answered in order
C9_Witness ==
    /\ Done("extract_version_numbers")
    /\ call.arg = <<<<"1", ".", "1", "2">>, <<"6", ".", "1", ".", "9">>, <<"1", ".", "1", "2">>>>
    /\ ret = Ok(call.arg)

\* build is present only if patch is present
WellFormed(t) == IsSome(t[4]) => IsSome(t[3])

\* the version string v denotes the tuple t: the regex matches all of v
\* and its groups parse to t
Denotes(v, t) ==
    /\ Len(CapturesIter(v)) = 1
    /\ CapturesIter(v)[1].g0 = v
    /\ MatchTuple(CapturesIter(v)[1]) = Ok(t)

RoundTripInputs ==
    {[name |-> name, tup |-> t, text |-> FormatSpecifier(name, t)] :
        name \in ValidNames, t \in {u \in Tuples : WellFormed(u)}}

\* C10: for every well-formed tuple t, parsing name@stringify(t) succeeds
\* with that name and a version that denotes t.
C10_ParserRoundTrip ==
    Done("parse_package_specifier") =>
        \A x \in RoundTripInputs :
            call.arg = x.text =>
                /\ ret.kind = "Ok"
                /\ ret.val[1] = x.name
                /\ IsSome(ret.val[2])
                /\ Denotes(Unwrap(ret.val[2]), x.tup)

\* C10 witness: a_1@6.11.0.4294967295 is parsed
C10_Witness ==
    /\ Done("parse_package_specifier")
    /\ call.arg = FormatSpecifier(<<"a", "_", "1">>,
                      <<<<"6">>, <<"1", "1">>, Some(<<"0">>), Some(U32_MAX)>>)
    /\ ret.kind = "Ok"

\* C11: newest is position 0 regardless of content: whenever the versions
\* and links lists are non-empty (and of equal length), find_newest_version
\* returns exactly the first version with the first link, whatever the
\* version values are.
C11_NewestIsFirst ==
    (/\ Done("find_newest_version")
     /\ HasReleases
     /\ Len(Versions) >= 1
     /\ Len(Links) = Len(Versions))
    => ret = Ok(Some(<<Versions[1], Links[1]>>))

\* the first entry is 6.1.9 and a later entry, 6.2.0, is numerically greater
C11_Witness ==
    /\ Done("find_newest_version")
    /\ site.names = <<<<"6", ".", "1", ".", "9">>, <<"6", ".", "2", ".", "0">>>>
    /\ ret = Ok(Some(<<<<"6", ".", "1", ".", "9">>, 1>>))

\* an exact version: two to four dot-separated numerals
IsExactVersion(v) ==
    /\ Len(Split(v, ".")) \in 2..4
    /\ \A k \in 1..Len(Split(v, ".")) : IsNumeral(Split(v, ".")[k])

\* the files page was read and some label of it failed to extract
ExtractionFails ==
    /\ minecraft_version = MainMinecraftVersion
    /\ site.status = "success" /\ site.listing
    /\ extract_version_numbers(site.names).kind = "Err"

\* C12: not-found is a normal absent result, not an error: when every label
\* extracts and no entry's version is the requested exact version, fetch
\* returns Ok(None) and pkg_install returns Ok(None) (writing no file);
\* an extraction failure is an Err, so the two outcomes differ.
C12_NotFoundIsNone ==
    /\ (/\ Done("fetch")
        /\ HasReleases
        /\ IsExactVersion(call.arg)
        /\ \A i \in 1..Len(Versions) : Versions[i] # call.arg)
       => ret = Ok(None)
    /\ (/\ Done("pkg_install")
        /\ HasReleases
        /\ \E name \in ValidNames, v \in VersionCodes :
               /\ call.arg = name \o At \o v
               /\ IsExactVersion(v)
               /\ \A i \in 1..Len(Versions) : Versions[i] # v)
       => ret = Ok(None) /\ plugins = {}
    /\ (/\ Done("fetch") \/ Done("pkg_install")
        /\ \E name \in ValidNames, v \in VersionCodes :
               /\ call.arg \in {v, name \o At \o v}
               /\ IsExactVersion(v)
        /\ ExtractionFails)
       => ret.kind = "Err"

\* 9.9.9 is asked of a page whose only release is 6.1.9
C12_Witness ==
    /\ Done("pkg_install")
    /\ call.arg = <<"a">> \o At \o <<"9", ".", "9", ".", "9">>
    /\ site.names = <<<<"6", ".", "1", ".", "9">>>>
    /\ ret = Ok(None)

\* an exact version is asked of a page with a label that fails to extract
C12_WitnessErr ==
    /\ Done("fetch")
    /\ IsExactVersion(call.arg)
    /\ ExtractionFails
    /\ ret.kind = "Err"

\* C13: fetch is deterministic: whichever order the version-to-link map is
\* iterated in, fetch produces the one same result for the same page and
\* the same requested version (every result the search loop can produce is
\* the result that was returned).
C13_FetchIsDeterministic ==
    Done("fetch") => fetch(minecraft_version, site, call.arg) = {ret}

\* a link is returned from a map of three keys
C13_Witness ==
    /\ Done("fetch")
    /\ HasReleases
    /\ Cardinality(DOMAIN NamesToLinks(Versions, Links)) = 3
    /\ call.arg = <<"6", ".", "1", ".", "1", "1">>
    /\ \E l \in Range(Links) : ret = Ok(Some(l))

\* the positions of the separator in s
AtPositions(s) == {k \in 1..Len(s) : s[k] = VERSION_SPLIT_CHAR}

\* the text of s before its first separator, all of s when it has none
NamePart(s) ==
    IF AtPositions(s) = {} THEN s
    ELSE SubSeq(s, 1, Least(AtPositions(s)) - 1)

\* C14: whenever the parser accepts a specifier, the input has at most one
\* '@' and the returned name is the non-empty text before the '@' (the
\* whole input when there is none), made of word characters only and so
\* free of '@'; an input with two or more '@', an empty name or a non-word
\* character in the name is rejected with the invalid-specifier error.
C14_AcceptedNameIsOneWord ==
    Done("parse_package_specifier")
    => /\ ret.kind = "Ok"
          => /\ Cardinality(AtPositions(call.arg)) <= 1
             /\ ret.val[1] = NamePart(call.arg)
             /\ Len(ret.val[1]) >= 1
             /\ \A k \in 1..Len(ret.val[1]) :
                    IsWord(ret.val[1][k]) /\ ret.val[1][k] # "@"
       /\ (\/ Cardinality(AtPositions(call.arg)) >= 2
           \/ Len(NamePart(call.arg)) = 0
           \/ \E k \in 1..Len(NamePart(call.arg)) :
                  ~IsWord(NamePart(call.arg)[k]))
          => ret = Err("PkgSpecInvalid")

\* a_1@1.1 is accepted with the name a_1
C14_Witness ==
    /\ Done("parse_package_specifier")
    /\ call.arg = <<"a", "_", "1", "@", "1", ".", "1">>
    /\ ret = Ok(<<<<"a", "_", "1">>, Some(<<"1", ".", "1">>)>>)

\* a@@1.1, @1.1 and "1 2@1.1" are rejected
C14_WitnessRejected ==
    /\ Done("parse_package_specifier")
    /\ call.arg \in {<<"a", "@", "@", "1", ".", "1">>,
                     <<"@", "1", ".", "1">>,
                     <<"1", " ", "2", "@", "1", ".", "1">>}
    /\ ret = Err("PkgSpecInvalid")

\* the version half of s: the text after its first separator
VersionPart(s) == SubSeq(s, Least(AtPositions(s)) + 1, Len(s))

\* some numeric field of the exact version v is greater than u32::MAX
Overflows(v) ==
    /\ IsExactVersion(v)
    /\ \E k \in 1..Len(Split(v, ".")) :
           NumLess(U32_MAX, StripZeros(Split(v, ".")[k]))

\* C15: numeric overflow in the parser is a format error: a specifier
\* name@v whose version half has a numeric field greater than 4294967295
\* is rejected with the invalid-specifier error; it is neither accepted
\* nor a cause of a panic.
C15_OverflowIsRejected ==
    (/\ Done("parse_package_specifier")
     /\ Cardinality(AtPositions(call.arg)) = 1
     /\ NamePart(call.arg) \in ValidNames
     /\ Overflows(VersionPart(call.arg)))
    => ret = Err("PkgSpecInvalid")

\* the score the claim describes for column i: the labels that have no
\* candidate at column i, plus the labels that have one equal to the one
\* of the label just before them
AdjacentScore(version_tuples, i) ==
    Cardinality({j \in 1..Len(version_tuples) : Len(version_tuples[j]) < i})
    + Cardinality({j \in 2..Len(version_tuples) :
                      /\ Len(version_tuples[j]) >= i
                      /\ Len(version_tuples[j - 1]) >= i
                      /\ version_tuples[j][i] = version_tuples[j - 1][i]})

\* C16: in the ambiguous case the score computed for every column i is the
\* number of labels that lack column i plus the number of labels whose
\* column-i candidate equals that of the immediately preceding label; a
\* candidate is never compared across a label that lacks the column.
C16_ScoreComparesAdjacentLabels ==
    (/\ Done("extract_version_numbers")
     /\ Ambiguous
     /\ MaxLen(Candidates.val) >= 1
     /\ Len(Candidates.val[1]) = MaxLen(Candidates.val))
    => \A i \in 1..MaxLen(Candidates.val) :
           SimilarStreaks(Candidates.val)[i] = AdjacentScore(Candidates.val, i)

\* the tuple the exact version v denotes
RequestedTuple(v) == MatchTuple(CapturesIter(v)[1]).val

\* every label of the files page has exactly one candidate, which is then
\* the tuple extracted for it
OneCandidateEach ==
    /\ VersionTuples(site.names).kind = "Ok"
    /\ \A k \in 1..Len(site.names) : Len(VersionTuples(site.names).val[k]) = 1

EntryTuple(k) == VersionTuples(site.names).val[k][1]

\* C17: exact matching is structural on the version tuple: fetch returns a
\* link if and only if the tuple extracted for some entry equals the
\* requested tuple field by field, whatever the textual form (06.1.9 finds
\* (6,1,9); 1.2.3 does not find a tuple of another shape that is written
\* 1.2.3).
C17_ExactMatchIsStructural ==
    (/\ Done("fetch")
     /\ HasReleases
     /\ OneCandidateEach
     /\ IsExactVersion(call.arg))
    => (IsSome(ret.val)
        <=> \E k \in 1..Len(site.names) :
                EntryTuple(k) = RequestedTuple(call.arg))

\* C18: every candidate tuple the extractor builds from a label has its
\* major and minor present and has no build when it has no patch.
C18_CandidatesAreWellFormed ==
    (/\ Done("extract_version_numbers")
     /\ Candidates.kind = "Ok")
    => \A k \in 1..Len(Candidates.val) :
           \A c \in 1..Len(Candidates.val[k]) :
               /\ IsNumeral(Candidates.val[k][c][1])
               /\ IsNumeral(Candidates.val[k][c][2])
               /\ WellFormed(Candidates.val[k][c])

=============================================================================
